---- MODULE Spec2Model ----
(***************************************************************************)
(* A model of chromaTest.py: the link-based question answering session     *)
(* (main), the sentence segmenter, the keyword extractor, the relevance    *)
(* filter of RAGSystem.process_query and LLMService.generate_answer.       *)
(*                                                                         *)
(* Python strings are modelled as sequences of one-character strings, so   *)
(* that split, strip, lower and the substring test are computed and not    *)
(* assumed.  The Turkish letters of the source's literals are written      *)
(* with their ASCII base letter ("cik" for the exit word, "Bunu            *)
(* bulamadim." for the sentinel): the module's lexer accepts ASCII only.   *)
(* Distances are in tenths (0.5 is 5).                                     *)
(***************************************************************************)
EXTENDS Integers, Sequences, FiniteSets, TLC

VARIABLES
    pc,                 \* position of main
    links,              \* get_links_from_user: links
    printed,            \* the last line main printed
    collection,         \* VectorStore.__init__ has created the collection
    index,              \* the collection's contents, by id (0-based id i at i+1)
    addCalls,           \* number of calls of VectorStore.add_sentences
    responses,          \* what each request of load_content_from_links met
    all_sentences,      \* main: all_sentences
    query,              \* process_query: query
    candidates,         \* process_query: zip(selected_sentences, distances)
    query_keywords,     \* process_query: query_keywords
    relevant_sentences, \* process_query: relevant_sentences
    answerable,         \* the test of line 211 let the query through
    llmInvoked,         \* generate_answer was called for this query
    postIssued,         \* requests.post was called for this query
    llmOutcome,         \* what that request met
    answer,             \* the value process_query returned
    returned,           \* process_query has returned for the query shown
    segPc,              \* segmentation round trip: position
    segText,            \* segmentation round trip: the text at hand
    segSentences,       \* segmentation round trip: first segmentation
    segAgain            \* segmentation round trip: second segmentation

sessionVars == <<pc, links, printed, collection, index, addCalls, responses,
                 all_sentences>>
queryVars == <<query, candidates, query_keywords, relevant_sentences,
               answerable, llmInvoked, postIssued, llmOutcome, answer, returned>>
segVars == <<segPc, segText, segSentences, segAgain>>
vars == <<sessionVars, queryVars, segVars>>

----------------------------------------------------------------------------
(* Bounds of the model *)

MaxLinks == 3
MaxCand == 2
MaxTextLen == 5

(* Config *)

RELEVANCE_THRESHOLD == 5
MAX_RESULTS == 10

STOPWORDS ==
    { <<"n","e","d","i","r">>, <<"n","a","s","i","l">>, <<"n","e">>,
      <<"i","c","i","n">>, <<"i","l","e">>, <<"v","e">>, <<"b","i","r">>,
      <<"b","u">>, <<"s","u">>, <<"z","a","m","a","n">> }

NOT_FOUND == "Bunu bulamadim."
CONNECTION_FALLBACK == "Ollama sunucusuna baglanilamadi. Lutfen 'ollama serve' komutunu calistirarak sunucuyu baslatin."
GENERIC_FALLBACK == "Yanit uretilirken bir hata olustu."

----------------------------------------------------------------------------
(* Python str operations *)

Whitespace == {" ", "\n"}

Min(a, b) == IF a <= b THEN a ELSE b

\* str.lower, on the letters the model uses
LowerChar(c) ==
    CASE c = "A" -> "a"
      [] c = "B" -> "b"
      [] c = "C" -> "c"
      [] OTHER -> c

Lower(s) == [i \in 1..Len(s) |-> LowerChar(s[i])]

RECURSIVE LStrip(_)
LStrip(s) ==
    IF s # <<>> /\ Head(s) \in Whitespace THEN LStrip(Tail(s)) ELSE s

RECURSIVE RStrip(_)
RStrip(s) ==
    IF s # <<>> /\ s[Len(s)] \in Whitespace
    THEN RStrip(SubSeq(s, 1, Len(s) - 1))
    ELSE s

\* str.strip()
Strip(s) == RStrip(LStrip(s))

\* s.startswith(p)
StartsWith(s, p) == Len(s) >= Len(p) /\ SubSeq(s, 1, Len(p)) = p

\* sub in s
Contains(sub, s) ==
    \E i \in 1..(Len(s) - Len(sub) + 1) : SubSeq(s, i, i + Len(sub) - 1) = sub

\* s.find(sep) + 1, 0 when sep does not occur
Find(s, sep) ==
    LET hits == {i \in 1..(Len(s) - Len(sep) + 1) :
                    SubSeq(s, i, i + Len(sep) - 1) = sep}
    IN  IF hits = {} THEN 0 ELSE CHOOSE i \in hits : \A j \in hits : i <= j

\* s.split(sep): the pieces between the occurrences of sep, left to right
RECURSIVE SplitOn(_, _)
SplitOn(s, sep) ==
    LET i == Find(s, sep)
    IN  IF i = 0
        THEN <<s>>
        ELSE <<SubSeq(s, 1, i - 1)>> \o SplitOn(SubSeq(s, i + Len(sep), Len(s)), sep)

\* the end of the run of non-whitespace that starts s
RECURSIVE WordEnd(_, _)
WordEnd(s, i) ==
    IF i < Len(s) /\ s[i + 1] \notin Whitespace THEN WordEnd(s, i + 1) ELSE i

\* s.split(): the maximal runs of non-whitespace
RECURSIVE SplitWhitespace(_)
SplitWhitespace(s) ==
    LET t == LStrip(s)
    IN  IF t = <<>>
        THEN <<>>
        ELSE LET e == WordEnd(t, 1)
             IN  <<SubSeq(t, 1, e)>> \o SplitWhitespace(SubSeq(t, e + 1, Len(t)))

\* sep.join(parts)
RECURSIVE Join(_, _)
Join(parts, sep) ==
    IF parts = <<>> THEN <<>>
    ELSE IF Len(parts) = 1 THEN parts[1]
    ELSE parts[1] \o sep \o Join(Tail(parts), sep)

----------------------------------------------------------------------------
(* TextProcessor *)

RECURSIVE StripNonEmpty(_)
StripNonEmpty(parts) ==
    IF parts = <<>> THEN <<>>
    ELSE IF Strip(Head(parts)) # <<>>
         THEN <<Strip(Head(parts))>> \o StripNonEmpty(Tail(parts))
         ELSE StripNonEmpty(Tail(parts))

\* each sentence keeps the period that ended it
RECURSIVE SplitAfterPeriod(_)
SplitAfterPeriod(s) ==
    LET i == Find(s, <<".", " ">>)
    IN  IF i = 0
        THEN <<s>>
        ELSE <<SubSeq(s, 1, i)>> \o SplitAfterPeriod(SubSeq(s, i + 2, Len(s)))

split_into_sentences_KeepsPeriod(text) ==
    IF text = <<>> THEN <<>> ELSE StripNonEmpty(SplitAfterPeriod(text))

split_into_sentences(text) ==
    IF text = <<>> THEN <<>> ELSE StripNonEmpty(SplitOn(text, <<".", " ">>))

RECURSIVE DropStopwords(_)
DropStopwords(words) ==
    IF words = <<>> THEN <<>>
    ELSE IF Head(words) \notin STOPWORDS
         THEN <<Head(words)>> \o DropStopwords(Tail(words))
         ELSE DropStopwords(Tail(words))

extract_keywords(q) == DropStopwords(SplitWhitespace(Lower(q)))

\* the sentence is not lowercased before the test
is_sentence_relevant_CaseSensitive(sentence, keywords) ==
    \E i \in 1..Len(keywords) : Contains(keywords[i], sentence)

is_sentence_relevant(sentence, keywords) ==
    \E i \in 1..Len(keywords) : Contains(keywords[i], Lower(sentence))

----------------------------------------------------------------------------
(* ContentFetcher *)

None == [some |-> FALSE, text |-> <<>>]
Some(text) == [some |-> TRUE, text |-> text]

\* What a GET can meet: requests.get raises, raise_for_status raises, or a
\* page whose paragraphs join to `text`.
PageTexts == { <<" ">>, <<"a">>, <<"A","b","."," ","a">> }

FetchResponses ==
    { [kind |-> "network_error", text |-> <<>>],
      [kind |-> "http_error", text |-> <<>>] }
    \cup { [kind |-> "ok", text |-> t] : t \in PageTexts }

fetch_from_url(url, resp) ==
    IF resp.kind # "ok" THEN None
    ELSE IF Strip(resp.text) = <<>> THEN None
    ELSE Some(resp.text)

\* `if content:` of load_content_from_links
Truthy(content) == content.some /\ content.text # <<>>

----------------------------------------------------------------------------
(* VectorStore *)

\* add_sentences on the collection `idx`: sentence i is stored under id
\* str(i); an id the collection already holds keeps its entry.
add_sentences(idx, sentences) ==
    IF sentences = <<>> THEN idx
    ELSE [i \in 1..(IF Len(idx) > Len(sentences) THEN Len(idx) ELSE Len(sentences))
            |-> IF i <= Len(idx) THEN idx[i] ELSE sentences[i]]

Distances == {2, 5, 9}

\* the duplicate-free sequences of ids 1..n, of length m
IdSeqs(n, m) == {p \in [1..m -> 1..n] : \A i, j \in 1..m : p[i] = p[j] => i = j}

\* What collection.query can return for n_results: at most n_results of
\* the stored sentences, each with a distance.
QueryResults(idx, n_results) ==
    UNION { UNION { { [i \in 1..m |-> [text |-> idx[p[i]], distance |-> d[i]]]
                        : d \in [1..m -> Distances] }
                    : p \in IdSeqs(Len(idx), m) }
            : m \in 0..Min(Min(n_results, MaxCand), Len(idx)) }

----------------------------------------------------------------------------
(* LLMService *)

\* What the POST can meet: a JSON body with or without "response", or an
\* exception.  ConnectTimeout is a ConnectionError and a Timeout in
\* requests.exceptions; ReadTimeout is a Timeout only.
LLMResponses == { <<" ", "a", "\n">> }

ConnectionErrors == {"ConnectionError", "ConnectTimeout"}
Timeouts == {"ConnectTimeout", "ReadTimeout"}
OtherFailures == {"HTTPError", "ValueError"}
FailureKinds == ConnectionErrors \cup Timeouts \cup OtherFailures

LLMOutcomes ==
    { [kind |-> "ok", response |-> r] : r \in LLMResponses }
    \cup { [kind |-> k, response |-> <<>>] : k \in {"no_field"} \cup FailureKinds }

Fixed(s) == [fixed |-> s, text |-> <<>>]
Text(t) == [fixed |-> "", text |-> t]

\* one handler for every exception
generate_answer_OneHandler(question, context_sentences, out) ==
    IF context_sentences = <<>>
    THEN [answer |-> Fixed(NOT_FOUND), posted |-> FALSE, raised |-> FALSE,
          context |-> <<>>]
    ELSE [answer |-> CASE out.kind = "ok" -> Text(Strip(out.response))
                       [] out.kind = "no_field" -> Fixed(NOT_FOUND)
                       [] OTHER -> Fixed(GENERIC_FALLBACK),
          posted |-> TRUE, raised |-> FALSE,
          context |-> Join(context_sentences, <<" ">>)]

generate_answer(question, context_sentences, out) ==
    IF context_sentences = <<>>
    THEN [answer |-> Fixed(NOT_FOUND), posted |-> FALSE, raised |-> FALSE,
          context |-> <<>>]
    ELSE LET context == Join(context_sentences, <<" ">>)
             result ==
                CASE out.kind = "ok" -> Text(Strip(out.response))
                  [] out.kind = "no_field" -> Fixed(NOT_FOUND)
                  [] out.kind \in ConnectionErrors -> Fixed(CONNECTION_FALLBACK)
                  [] OTHER -> Fixed(GENERIC_FALLBACK)
         IN  [answer |-> result, posted |-> TRUE, raised |-> FALSE,
              context |-> context]

----------------------------------------------------------------------------
(* RAGSystem *)

RECURSIVE LoadFrom(_, _, _)
LoadFrom(ls, rs, i) ==
    IF i > Len(ls) THEN <<>>
    ELSE LET content == fetch_from_url(ls[i], rs[i])
         IN  (IF Truthy(content) THEN split_into_sentences(content.text) ELSE <<>>)
             \o LoadFrom(ls, rs, i + 1)

\* the loop ends at the first link without content
RECURSIVE LoadUntilFailure(_, _, _)
LoadUntilFailure(ls, rs, i) ==
    IF i > Len(ls) THEN <<>>
    ELSE LET content == fetch_from_url(ls[i], rs[i])
         IN  IF Truthy(content)
             THEN split_into_sentences(content.text) \o LoadUntilFailure(ls, rs, i + 1)
             ELSE <<>>

load_content_from_links_StopsAtFailure(ls, rs) == LoadUntilFailure(ls, rs, 1)

load_content_from_links(ls, rs) == LoadFrom(ls, rs, 1)

\* the distance is not tested
DistanceRelevant_Always(distance) == TRUE

DistanceRelevant(distance) == distance <= RELEVANCE_THRESHOLD

\* the loop of lines 202-206
RECURSIVE RelevantSentences(_, _)
RelevantSentences(cands, keywords) ==
    IF cands = <<>> THEN <<>>
    ELSE IF is_sentence_relevant(Head(cands).text, keywords)
            /\ DistanceRelevant(Head(cands).distance)
         THEN <<Head(cands).text>> \o RelevantSentences(Tail(cands), keywords)
         ELSE RelevantSentences(Tail(cands), keywords)

\* the first candidate's distance is not tested
NotFound_NoVeto(relevant, cands) == relevant = <<>>

\* the condition of line 211
NotFound(relevant, cands) ==
    relevant = <<>> \/ (cands # <<>> /\ cands[1].distance > RELEVANCE_THRESHOLD)

----------------------------------------------------------------------------
(* main *)

BITTI == <<"b","i","t","t","i">>
HTTP == <<"h","t","t","p">>
EXIT_WORD == <<"c","i","k">>

EXITING == "Programdan cikiliyor..."
NO_SENTENCES == "Hicbir icerikten cumle cekilemedi, program sona eriyor."

LinkLines == { BITTI, <<"B","i","t","t","i">>, HTTP, <<"f","t","p">> }

QueryLines == { EXIT_WORD, <<"C","i","k">>, <<>>, <<"n","e">>, <<"a">>,
                <<"A","b"," ","n","e">> }

NoAnswer == [fixed |-> "", text |-> <<>>]

SegIdle ==
    /\ segPc = "idle"
    /\ segText = <<>>
    /\ segSentences = <<>>
    /\ segAgain = <<>>

NoQuery ==
    /\ query = <<>>
    /\ candidates = <<>>
    /\ query_keywords = <<>>
    /\ relevant_sentences = <<>>
    /\ answerable = FALSE
    /\ llmInvoked = FALSE
    /\ postIssued = FALSE
    /\ llmOutcome = "none"
    /\ answer = NoAnswer
    /\ returned = FALSE

Init ==
    /\ pc = "get_links"
    /\ links = <<>>
    /\ printed = "Lutfen icerik linklerini girin."
    /\ collection = FALSE
    /\ index = <<>>
    /\ addCalls = 0
    /\ responses = <<>>
    /\ all_sentences = <<>>
    /\ NoQuery
    /\ SegIdle

\* get_links_from_user, one line of input at a time
LinkEntered ==
    /\ pc = "get_links"
    /\ \E line \in LinkLines :
        /\ Lower(line) # BITTI
        /\ StartsWith(line, HTTP)
        /\ Len(links) < MaxLinks
        /\ links' = Append(links, line)
    /\ UNCHANGED <<pc, printed, collection, index, addCalls, responses,
                   all_sentences, queryVars, segVars>>

InvalidLinkEntered ==
    /\ pc = "get_links"
    /\ \E line \in LinkLines :
        /\ Lower(line) # BITTI
        /\ ~StartsWith(line, HTTP)
    /\ printed' = "Gecersiz link, lutfen 'http' ile baslayan bir link girin."
    /\ UNCHANGED <<pc, links, collection, index, addCalls, responses,
                   all_sentences, queryVars, segVars>>

\* 'bitti', then lines 238-240 of main
LinksFinished ==
    /\ pc = "get_links"
    /\ \E line \in LinkLines : Lower(line) = BITTI
    /\ IF links = <<>>
       THEN /\ printed' = "Hic link girilmedi, program sona eriyor."
            /\ pc' = "done"
       ELSE /\ printed' = printed
            /\ pc' = "construct"
    /\ UNCHANGED <<links, collection, index, addCalls, responses,
                   all_sentences, queryVars, segVars>>

\* RAGSystem(): VectorStore.__init__ creates the collection
ConstructRAG ==
    /\ pc = "construct"
    /\ collection' = TRUE
    /\ pc' = "load"
    /\ UNCHANGED <<links, printed, index, addCalls, responses, all_sentences,
                   queryVars, segVars>>

\* the model or the collection cannot be set up: the exception leaves main
ConstructRAGFails ==
    /\ pc = "construct"
    /\ pc' = "crashed"
    /\ UNCHANGED <<links, printed, collection, index, addCalls, responses,
                   all_sentences, queryVars, segVars>>

\* the sentences are stored as they are loaded
LoadContent_AddsToIndex ==
    /\ pc = "load"
    /\ \E rs \in [1..Len(links) -> FetchResponses] :
        /\ responses' = rs
        /\ all_sentences' = load_content_from_links(links, rs)
        /\ index' = add_sentences(index, load_content_from_links(links, rs))
    /\ addCalls' = addCalls + 1
    /\ pc' = "loaded"
    /\ UNCHANGED <<links, printed, collection, queryVars, segVars>>

LoadContent ==
    /\ pc = "load"
    /\ \E rs \in [1..Len(links) -> FetchResponses] :
        /\ responses' = rs
        /\ all_sentences' = load_content_from_links(links, rs)
    /\ pc' = "loaded"
    /\ UNCHANGED <<links, printed, collection, index, addCalls, queryVars, segVars>>

\* main goes on without the test of line 247
EmptyCorpusExit_Continues ==
    /\ pc = "loaded"
    /\ all_sentences = <<>>
    /\ index' = add_sentences(index, all_sentences)
    /\ addCalls' = addCalls + 1
    /\ printed' = "Simdi sorularinizi sorabilirsiniz:"
    /\ pc' = "query"
    /\ UNCHANGED <<links, collection, responses, all_sentences, queryVars, segVars>>

\* lines 247-249
EmptyCorpusExit ==
    /\ pc = "loaded"
    /\ all_sentences = <<>>
    /\ printed' = NO_SENTENCES
    /\ pc' = "done"
    /\ UNCHANGED <<links, collection, index, addCalls, responses, all_sentences,
                   queryVars, segVars>>

\* lines 252-255
AddSentences ==
    /\ pc = "loaded"
    /\ all_sentences # <<>>
    /\ index' = add_sentences(index, all_sentences)
    /\ addCalls' = addCalls + 1
    /\ printed' = "Simdi sorularinizi sorabilirsiniz:"
    /\ pc' = "query"
    /\ UNCHANGED <<links, collection, responses, all_sentences, queryVars, segVars>>

\* encode or collection.add raises part-way: the exception leaves main
AddSentencesFails ==
    /\ pc = "loaded"
    /\ all_sentences # <<>>
    /\ \E n \in 0..(Len(all_sentences) - 1) :
        index' = add_sentences(index, SubSeq(all_sentences, 1, n))
    /\ addCalls' = addCalls + 1
    /\ pc' = "crashed"
    /\ UNCHANGED <<links, printed, collection, responses, all_sentences,
                   queryVars, segVars>>

\* lines 257-260, the exit word
ExitEntered ==
    /\ pc = "query"
    /\ \E line \in QueryLines : Lower(line) = EXIT_WORD
    /\ printed' = EXITING
    /\ pc' = "done"
    /\ UNCHANGED <<links, collection, index, addCalls, responses, all_sentences,
                   queryVars, segVars>>

\* lines 257-264: a question is read and process_query is entered
ReadQuery ==
    /\ pc = "query"
    /\ \E line \in QueryLines :
        /\ Lower(line) # EXIT_WORD
        /\ query' = line
    /\ candidates' = <<>>
    /\ query_keywords' = <<>>
    /\ relevant_sentences' = <<>>
    /\ answerable' = FALSE
    /\ llmInvoked' = FALSE
    /\ postIssued' = FALSE
    /\ llmOutcome' = "none"
    /\ answer' = NoAnswer
    /\ returned' = FALSE
    /\ printed' = "Yanit:"
    /\ pc' = "lookup"
    /\ UNCHANGED <<links, collection, index, addCalls, responses, all_sentences,
                   segVars>>

\* lines 190-194
QueryLookup ==
    /\ pc = "lookup"
    /\ \E cs \in QueryResults(index, MAX_RESULTS) : candidates' = cs
    /\ pc' = "gate"
    /\ UNCHANGED <<links, printed, collection, index, addCalls,
                   responses, all_sentences, query, query_keywords,
                   relevant_sentences, answerable, llmInvoked, postIssued,
                   llmOutcome, answer, returned, segVars>>

\* query_similar raises: nothing in process_query or main catches it
QueryLookupFails ==
    /\ pc = "lookup"
    /\ pc' = "crashed"
    /\ UNCHANGED <<links, printed, collection, index, addCalls, responses,
                   all_sentences, queryVars, segVars>>

\* generate_answer is called whatever line 211 finds
Gate_AlwaysSynthesizes ==
    /\ pc = "gate"
    /\ LET keywords == extract_keywords(query)
           relevant == RelevantSentences(candidates, keywords)
       IN  /\ query_keywords' = keywords
           /\ relevant_sentences' = relevant
           /\ answerable' = ~NotFound(relevant, candidates)
    /\ pc' = "llm"
    /\ UNCHANGED <<links, printed, collection, index, addCalls, responses,
                   all_sentences, query, candidates, llmInvoked, postIssued,
                   llmOutcome, answer, returned, segVars>>

\* lines 200-212
Gate ==
    /\ pc = "gate"
    /\ LET keywords == extract_keywords(query)
           relevant == RelevantSentences(candidates, keywords)
       IN  /\ query_keywords' = keywords
           /\ relevant_sentences' = relevant
           /\ IF NotFound(relevant, candidates)
              THEN /\ answerable' = FALSE
                   /\ answer' = Fixed(NOT_FOUND)
                   /\ returned' = TRUE
                   /\ printed' = "<answer>"
                   /\ pc' = "query"
              ELSE /\ answerable' = TRUE
                   /\ UNCHANGED <<answer, returned, printed>>
                   /\ pc' = "llm"
    /\ UNCHANGED <<links, collection, index, addCalls, responses, all_sentences,
                   query, candidates, llmInvoked, postIssued, llmOutcome, segVars>>

\* line 214 and generate_answer, then line 265
Synthesize ==
    /\ pc = "llm"
    /\ \E out \in LLMOutcomes :
        LET r == generate_answer(query, relevant_sentences, out)
        IN  /\ llmInvoked' = TRUE
            /\ postIssued' = r.posted
            /\ llmOutcome' = IF r.posted THEN out.kind ELSE "none"
            /\ IF r.raised
               THEN /\ pc' = "crashed"
                    /\ UNCHANGED <<answer, returned, printed>>
               ELSE /\ answer' = r.answer
                    /\ returned' = TRUE
                    /\ printed' = "<answer>"
                    /\ pc' = "query"
    /\ UNCHANGED <<links, collection, index, addCalls, responses, all_sentences,
                   query, candidates, query_keywords, relevant_sentences,
                   answerable, segVars>>

Next ==
    \/ LinkEntered
    \/ InvalidLinkEntered
    \/ LinksFinished
    \/ ConstructRAG
    \/ ConstructRAGFails
    \/ LoadContent
    \/ EmptyCorpusExit
    \/ AddSentences
    \/ AddSentencesFails
    \/ ExitEntered
    \/ ReadQuery
    \/ QueryLookup
    \/ QueryLookupFails
    \/ Gate
    \/ Synthesize

Spec == Init /\ [][Next]_vars

----------------------------------------------------------------------------
(* The segmentation round trip: segment a text, write the sentences out     *)
(* again, segment the result.                                               *)

SegChars == {"a", ".", " ", "\n"}

SegTexts == UNION {[1..n -> SegChars] : n \in 0..MaxTextLen}

SegIdleSession ==
    /\ pc = "idle"
    /\ links = <<>>
    /\ printed = ""
    /\ collection = FALSE
    /\ index = <<>>
    /\ addCalls = 0
    /\ responses = <<>>
    /\ all_sentences = <<>>
    /\ NoQuery

SegInit ==
    /\ SegIdleSession
    /\ segPc = "text"
    /\ segText \in SegTexts
    /\ segSentences = <<>>
    /\ segAgain = <<>>

Segment ==
    /\ segPc = "text"
    /\ segSentences' = split_into_sentences(segText)
    /\ segPc' = "segmented"
    /\ UNCHANGED <<segText, segAgain, sessionVars, queryVars>>

RejoinLines ==
    /\ segPc = "segmented"
    /\ segText' = Join(segSentences, <<"\n">>)
    /\ segPc' = "lines"
    /\ UNCHANGED <<segSentences, segAgain, sessionVars, queryVars>>

RejoinMarker ==
    /\ segPc = "segmented"
    /\ segText' = Join(segSentences, <<".", " ">>)
    /\ segPc' = "marked"
    /\ UNCHANGED <<segSentences, segAgain, sessionVars, queryVars>>

SegmentAgain ==
    /\ segPc \in {"lines", "marked"}
    /\ segAgain' = split_into_sentences(segText)
    /\ segPc' = IF segPc = "lines" THEN "lines_again" ELSE "marked_again"
    /\ UNCHANGED <<segText, segSentences, sessionVars, queryVars>>

SegNext == Segment \/ RejoinLines \/ RejoinMarker \/ SegmentAgain

SegSpec == SegInit /\ [][SegNext]_vars

----------------------------------------------------------------------------
(* Properties *)

InQueryLoop == {"query", "lookup", "gate", "llm"}

\* the relevance filter of process_query has run for the query shown
GateRan == pc = "llm" \/ returned

\* conditions (a) and (b) of the admission rule, for one candidate
Admitted(c, keywords) ==
    /\ keywords # <<>>
    /\ \E i \in 1..Len(keywords) : Contains(keywords[i], Lower(c.text))
    /\ c.distance <= RELEVANCE_THRESHOLD

Ascending(cands) ==
    \A i, j \in 1..Len(cands) : i < j => cands[i].distance <= cands[j].distance

\* C1: once the filter has run, relevant_sentences holds exactly the
\* candidates that pass both the keyword test (a non-empty keyword list, one
\* keyword a substring of the lowercased text) and the distance test
\* (distance <= threshold), in the order the index returned them; with an
\* empty keyword list nothing is admitted and the query is not answerable.
C1_AdmissionRule ==
    GateRan =>
        LET adm == {i \in 1..Len(candidates) : Admitted(candidates[i], query_keywords)}
            n == Len(relevant_sentences)
        IN  /\ n = Cardinality(adm)
            /\ \E f \in [1..n -> adm] :
                /\ \A i, j \in 1..n : i < j => f[i] < f[j]
                /\ \A i \in 1..n : relevant_sentences[i] = candidates[f[i]].text
            /\ query_keywords = <<>> => relevant_sentences = <<>> /\ ~answerable

\* a keyword-rejected candidate within the threshold comes first, an admitted
\* one (matched through lowercasing, at the threshold) second
C1_Witness ==
    /\ returned
    /\ Len(candidates) = 2
    /\ candidates[1].distance < RELEVANCE_THRESHOLD
    /\ candidates[2].distance = RELEVANCE_THRESHOLD
    /\ candidates[2].text # Lower(candidates[2].text)
    /\ relevant_sentences = <<candidates[2].text>>

\* C2: the query is answerable exactly when some sentence was admitted and
\* the first returned candidate's distance does not exceed the threshold,
\* whether or not that first candidate was admitted; when it is not
\* answerable process_query returns the "not found" sentinel.
C2_GlobalVeto ==
    GateRan =>
        /\ answerable <=>
             ~(\/ relevant_sentences = <<>>
               \/ candidates[1].distance > RELEVANCE_THRESHOLD)
        /\ ~answerable => returned /\ answer = Fixed(NOT_FOUND)
        /\ answerable => pc = "llm" \/ llmInvoked

\* the first distance is above the threshold and a later candidate passed
\* both tests: not answerable
C2_Witness ==
    /\ returned
    /\ relevant_sentences # <<>>
    /\ candidates[1].distance > RELEVANCE_THRESHOLD
    /\ answer = Fixed(NOT_FOUND)
    /\ ~answerable

\* C3: generate_answer is called, and the POST issued, only for a query the
\* filter found answerable, and then with at least one admitted sentence; a
\* query that is not answerable returns the sentinel with no call and no
\* POST.
C3_SynthesizerOnlyWhenAnswerable ==
    /\ pc = "llm" \/ llmInvoked \/ postIssued =>
            answerable /\ Len(relevant_sentences) >= 1
    /\ postIssued => llmInvoked
    /\ GateRan /\ ~answerable =>
            /\ returned
            /\ answer = Fixed(NOT_FOUND)
            /\ ~llmInvoked
            /\ ~postIssued

C3_Witness ==
    /\ returned
    /\ postIssued
    /\ answerable
    /\ Len(relevant_sentences) >= 1

\* the claim's three kinds of failure of the POST
FailureClass(kind) ==
    IF kind \in Timeouts THEN "timeout"
    ELSE IF kind \in ConnectionErrors THEN "connection"
    ELSE "other"

\* C4 as stated: the fallback returned for a failure differs from the one
\* generate_answer returns for every failure of another of the three kinds
\* (timeout expiry, connection failure, any other failure).
C4_ThreeDistinctFallbacks ==
    returned /\ postIssued /\ llmOutcome \in FailureKinds =>
        \A k \in FailureKinds :
            FailureClass(k) # FailureClass(llmOutcome) =>
                generate_answer(query, relevant_sentences,
                                [kind |-> k, response |-> <<>>]).answer # answer

\* C4 amended: a failure that is a requests ConnectionError (a timeout while
\* connecting included) returns the connection fallback, every other failure
\* (a read timeout included) returns the generic fallback, the two strings
\* differ, and no failure leaves generate_answer.
C4_TwoFallbacks ==
    /\ CONNECTION_FALLBACK # GENERIC_FALLBACK
    /\ llmOutcome \in FailureKinds =>
        /\ pc # "crashed"
        /\ returned
        /\ answer = IF llmOutcome \in ConnectionErrors
                    THEN Fixed(CONNECTION_FALLBACK)
                    ELSE Fixed(GENERIC_FALLBACK)

\* a read timeout has returned the string of the other failures
C4_Witness ==
    /\ returned
    /\ llmOutcome = "ReadTimeout"
    /\ answer = Fixed(GENERIC_FALLBACK)

\* C5: the session leaves the query loop only by the exit word; a failure
\* while a query is processed leaves it in the loop.
C5_QueryFailuresIsolated ==
    [][(pc \in InQueryLoop /\ pc' \notin InQueryLoop) =>
            (pc' = "done" /\ printed' = EXITING)]_vars

\* C6: add_sentences is called at most once, when every link has been
\* fetched and no query has been read; in the query loop it has been called
\* exactly once and the collection holds what that call stored; no step of
\* the query loop changes the collection.
C6_WriteOnce ==
    /\ [](addCalls <= 1)
    /\ [](pc \in InQueryLoop =>
            addCalls = 1 /\ Len(responses) = Len(links) /\ index = all_sentences)
    /\ [][(index' # index \/ addCalls' # addCalls) =>
            (/\ pc = "loaded"
             /\ addCalls = 0
             /\ index = <<>>
             /\ Len(responses) = Len(links)
             /\ NoQuery)]_vars

C6_Witness ==
    /\ pc = "query"
    /\ returned
    /\ addCalls = 1
    /\ Len(index) >= 2

\* no sentence came out of any of the entered links
EmptyCorpus ==
    /\ links # <<>>
    /\ Len(responses) = Len(links)
    /\ all_sentences = <<>>

\* C7 as stated: on an empty corpus no index has been built, the session has
\* ended with the message and no query was accepted.
C7_NoIndexBuilt ==
    EmptyCorpus /\ pc = "done" =>
        /\ ~collection
        /\ index = <<>>
        /\ printed = NO_SENTENCES
        /\ NoQuery

\* C7 amended: on an empty corpus no sentence is added to the collection
\* (which RAGSystem() has already created, empty), add_sentences is not
\* called, the session ends with the message and no query is accepted.
C7_EmptyCorpusFatal ==
    EmptyCorpus =>
        /\ pc \in {"loaded", "done"}
        /\ index = <<>>
        /\ addCalls = 0
        /\ NoQuery
        /\ pc = "done" => printed = NO_SENTENCES

C7_Witness ==
    /\ EmptyCorpus
    /\ pc = "done"
    /\ collection
    /\ Len(links) = 2

\* a fetch that succeeded: no exception and a text that is not blank
FetchSucceeded(resp) == resp.kind = "ok" /\ Strip(resp.text) # <<>>

RECURSIVE SentencesOfSucceeded(_)
SentencesOfSucceeded(rs) ==
    IF rs = <<>> THEN <<>>
    ELSE (IF FetchSucceeded(Head(rs)) THEN split_into_sentences(Head(rs).text)
          ELSE <<>>)
         \o SentencesOfSucceeded(Tail(rs))

\* C8: load_content_from_links has requested every link and returned, in
\* link order, the sentences of the links whose fetch succeeded, whatever
\* the other fetches met.
C8_FetchFailureSkipsOneLink ==
    pc \in {"loaded"} \cup InQueryLoop =>
        /\ Len(responses) = Len(links)
        /\ all_sentences = SentencesOfSucceeded(responses)

\* the second of three links failed; the sentences of the first and of the
\* third were kept, in that order
C8_Witness ==
    /\ pc = "loaded"
    /\ Len(links) = 3
    /\ FetchSucceeded(responses[1])
    /\ ~FetchSucceeded(responses[2])
    /\ FetchSucceeded(responses[3])
    /\ responses[1].text # responses[3].text
    /\ all_sentences = split_into_sentences(responses[1].text)
                        \o split_into_sentences(responses[3].text)

\* C9 as stated: the sentences written one per line segment to themselves.
C9_LinesRoundTrip ==
    segPc = "lines_again" => segAgain = segSentences

\* C9 amended: the sentences joined by the period-space marker segment to
\* themselves; written one per line they do so only when there is at most
\* one sentence.
C9_MarkerRoundTrip ==
    /\ segPc = "marked_again" => segAgain = segSentences
    /\ segPc = "lines_again" /\ Len(segSentences) <= 1 => segAgain = segSentences

C9_Witness ==
    /\ segPc = "marked_again"
    /\ Len(segSentences) >= 2
    /\ segAgain = segSentences

\* C10: when the candidates are in ascending order of distance the query is
\* answerable exactly when a sentence was admitted; an admitted sentence
\* with a "not found" outcome occurs only for candidates out of order.
C10_VetoRedundantWhenAscending ==
    GateRan =>
        /\ Ascending(candidates) => (answerable <=> relevant_sentences # <<>>)
        /\ relevant_sentences # <<>> /\ ~answerable => ~Ascending(candidates)

\* ascending candidates, an admitted one first and one above the threshold
\* after it
C10_Witness ==
    /\ returned
    /\ Len(candidates) = 2
    /\ Ascending(candidates)
    /\ candidates[2].distance > RELEVANCE_THRESHOLD
    /\ relevant_sentences # <<>>
    /\ answerable

====
